---- MODULE Spec2Model ----
(***************************************************************************)
(* Papersio frontend: the research session driven by Home (app/page.tsx),  *)
(* its SearchBar and ResultsDisplay controls, the LoadingState progress    *)
(* indicator and the browser WebSocket the session runs on.                *)
(*                                                                         *)
(* JavaScript values: strings are TLA+ strings, null and undefined are the *)
(* reserved values Null and Undefined, an optional object is a sequence of *)
(* length 0 (null) or 1, a parsed JSON object is a record whose DOMAIN is  *)
(* the set of keys present in the frame.                                   *)
(***************************************************************************)
EXTENDS Integers, Sequences, FiniteSets, TLC

VARIABLES
    query,            \* page.tsx:11  text of the search box
    isLoading,        \* page.tsx:12
    error,            \* page.tsx:13  Null or the message shown in the error card
    result,           \* page.tsx:14  <<>> (null) or <<ResearchResponse>>
    status,           \* page.tsx:15  latest stage label
    statusDetails,    \* page.tsx:16
    displayProgress,  \* loading_state.tsx:35  <<>> while LoadingState is unmounted
    isGenerating,     \* workflow_stages.tsx:74  PDFExportButton, FALSE while unmounted
    exportError,      \* workflow_stages.tsx:75  PDFExportButton's own error
    sockets,          \* every WebSocket created at page.tsx:33, in creation order
    backendUrlOk,     \* whether new WebSocket(wsUrl) accepts the configured URL
    last,             \* history: the event handled by the last step
    label,            \* input of the stage mapper (SpecMapper)
    computed          \* output of the stage mapper (SpecMapper)

vars == <<query, isLoading, error, result, status, statusDetails,
          displayProgress, isGenerating, exportError, sockets, backendUrlOk,
          last, label, computed>>

homeVars == <<query, isLoading, error, result, status, statusDetails>>

mapperVars == <<label, computed>>

exportVars == <<isGenerating, exportError>>

-----------------------------------------------------------------------------
(* Bounds of the model *)

\* sockets one run of the application creates
MaxSockets == 3

\* sockets one run of Home alone creates
MaxHomeSockets == 1

-----------------------------------------------------------------------------
(* JavaScript values and string primitives *)

Null == "<null>"

Undefined == "<undefined>"

\* JS truthiness of a string-or-null-or-undefined value
Truthy(v) == v \notin {Null, Undefined, ""}

Max(a, b) == IF a >= b THEN a ELSE b

WhiteSpace == {" ", "\t", "\n"}

CharAt(s, i) == SubSeq(s, i, i)

RECURSIVE TrimStart(_)
TrimStart(s) ==
    IF Len(s) > 0 /\ CharAt(s, 1) \in WhiteSpace THEN TrimStart(Tail(s)) ELSE s

RECURSIVE TrimEnd(_)
TrimEnd(s) ==
    IF Len(s) > 0 /\ CharAt(s, Len(s)) \in WhiteSpace
    THEN TrimEnd(SubSeq(s, 1, Len(s) - 1))
    ELSE s

\* String.prototype.trim
Trim(s) == TrimEnd(TrimStart(s))

UpperCase == "ABCDEFGHIJKLMNOPQRSTUVWXYZ"

LowerCase == "abcdefghijklmnopqrstuvwxyz"

LowerChar(c) ==
    IF \E i \in 1..Len(UpperCase) : CharAt(UpperCase, i) = c
    THEN CharAt(LowerCase, CHOOSE i \in 1..Len(UpperCase) : CharAt(UpperCase, i) = c)
    ELSE c

RECURSIVE ToLowerCase(_)
ToLowerCase(s) ==
    IF Len(s) = 0 THEN s ELSE LowerChar(CharAt(s, 1)) \o ToLowerCase(Tail(s))

\* String.prototype.includes
Includes(s, sub) ==
    \E i \in 1..(Len(s) - Len(sub) + 1) : SubSeq(s, i, i + Len(sub) - 1) = sub

-----------------------------------------------------------------------------
(* StageProgressMapper: loading_state.tsx *)

STAGE_ORDER ==
    << "checking memory", "planning", "searching", "analyzing", "writing",
       "critiquing", "revising", "re-critiquing", "saving", "finalizing",
       "finished" >>

\* Array.prototype.findIndex over STAGE_ORDER from position i on; 0 is JS -1,
\* k >= 1 is JS index k-1
RECURSIVE FindIndexFrom(_, _)
FindIndexFrom(normalized, i) ==
    IF i > Len(STAGE_ORDER) THEN 0
    ELSE IF Includes(normalized, STAGE_ORDER[i]) THEN i
    ELSE FindIndexFrom(normalized, i + 1)

\* mutant: Math.floor instead of Math.round
RoundPercentFloor(n) == (n * 100) \div Len(STAGE_ORDER)

\* Math.round(((index + 1) / STAGE_ORDER.length) * 100), n = index + 1
RoundPercent(n) == (2 * n * 100 + Len(STAGE_ORDER)) \div (2 * Len(STAGE_ORDER))

UnknownStageProgress == 8

stageToProgress(stage) ==
    LET normalized == ToLowerCase(Trim(stage))
        index == FindIndexFrom(normalized, 1)
    IN  IF index = 0 THEN UnknownStageProgress ELSE RoundPercent(index)

-----------------------------------------------------------------------------
(* LoadingState: loading_state.tsx:33-39, mounted at page.tsx:136-140 *)

\* mutant: the effect stores the latest progress
NextDisplayProgressLatest(prev, progress) == progress

\* the updater of the effect: setDisplayProgress((prev) => Math.max(prev, progress))
NextDisplayProgress(prev, progress) == Max(prev, progress)

\* mutant: a LoadingState that stays mounted, hidden, between sessions
LoadingStateRenderKept(loading, stage, prev) ==
    IF ~loading THEN prev
    ELSE IF prev = <<>> THEN <<stageToProgress(stage)>>
    ELSE <<NextDisplayProgress(prev[1], stageToProgress(stage))>>

\* displayProgress after React has rendered Home with the given isLoading and
\* status and has run LoadingState's effect: unmounted when not loading,
\* useState(progress) on mount, the effect's maximum on an update
LoadingStateRender(loading, stage, prev) ==
    IF ~loading THEN <<>>
    ELSE IF prev = <<>> THEN <<stageToProgress(stage)>>
    ELSE <<NextDisplayProgress(prev[1], stageToProgress(stage))>>

\* PDFExportButton lives inside ResultsDisplay, which page.tsx renders under
\* !isLoading && result: unmounted, its state is gone, and it mounts with the
\* initial state of its two useState calls
PDFExportButtonRender(shown, generating, err) ==
    IF shown THEN <<generating, err>> ELSE <<FALSE, Null>>

Render ==
    /\ displayProgress' = LoadingStateRender(isLoading', status', displayProgress)
    /\ LET button == PDFExportButtonRender(~isLoading' /\ result' # <<>>,
                                           isGenerating, exportError)
       IN  isGenerating' = button[1] /\ exportError' = button[2]

-----------------------------------------------------------------------------
(* Frames the server may put on the channel (event.data) *)

Wire(obj) == [valid |-> TRUE, data |-> obj]

\* a payload JSON.parse rejects
Garbage == [valid |-> FALSE, data |-> [raw |-> "<html>502</html>"]]

NoWire == [valid |-> FALSE, data |-> [raw |-> ""]]

SourceA == [title |-> "A", url |-> "http://x", source_type |-> "arxiv"]

SourceB == [title |-> "B", url |-> "http://y", source_type |-> "web"]

StatusFrames ==
    { Wire([type |-> "status", stage |-> "  SEARCHING arXiv ", details |-> "3 papers"]),
      Wire([type |-> "status", stage |-> "Finished"]),
      Wire([type |-> "status", stage |-> ""]) }

ResultFrames ==
    { Wire([type |-> "result", answer |-> "report", sources |-> <<SourceB, SourceA>>]),
      Wire([type |-> "result", answer |-> "short"]),
      Wire([type |-> "result", answer |-> Null]) }

\* the second one carries its text under another key, so data.content is
\* undefined
ErrorFrames ==
    { Wire([type |-> "error", content |-> "agent crashed"]),
      Wire([type |-> "error", message |-> "agent crashed"]) }

UnknownFrames == { Wire([type |-> "bogus"]), Wire([stage |-> "planning"]), Garbage }

Frames == StatusFrames \cup ResultFrames \cup ErrorFrames \cup UnknownFrames

\* property access on a parsed object: undefined when the key is absent
Get(obj, key) == IF key \in DOMAIN obj THEN obj[key] ELSE Undefined

\* texts the search box can hold
QueryTexts == { "", " ", " rag " }

-----------------------------------------------------------------------------
(* The browser WebSocket: page.tsx:33 *)

Connecting == "CONNECTING"

Open == "OPEN"

Closing == "CLOSING"

Closed == "CLOSED"

\* new WebSocket(wsUrl), with the query the handler closures capture
NewSocket(q) == [readyState |-> Connecting, query |-> q, sent |-> <<>>]

\* ws.close(): starts the closing handshake of a socket that is not closing yet
WsClose(ws) ==
    IF ws.readyState \in {Closing, Closed} THEN ws
    ELSE [ws EXCEPT !.readyState = Closing]

Live(ws) == ws.readyState \in {Connecting, Open}

SocketIds == 1..Len(sockets)

Event(ev, ch, w, delivered) == [ev |-> ev, ch |-> ch, wire |-> w, delivered |-> delivered]

-----------------------------------------------------------------------------
(* Home's handlers: page.tsx *)

EmptyQueryMessage == "Please enter a research question!"

ConnectionFailedMessage == "Connection failed. Make sure backend is running."

\* err.message of the exception new WebSocket(wsUrl) throws on a URL it rejects
ConstructorErrorMessage == "Failed to construct 'WebSocket'"

StrategyLabel == "Real-time Agent Research"

\* mutant: the guard without trim
IsEmptyQueryUntrimmed(q) == q = ""

\* !query.trim()
IsEmptyQuery(q) == Trim(q) = ""

\* mutant: the request carries the text as typed
RequestFrameUntrimmed(q) == [query |-> q, use_search |-> TRUE, mode |-> "ultra"]

\* the request frame of ws.onopen
RequestFrame(q) == [query |-> Trim(q), use_search |-> TRUE, mode |-> "ultra"]

\* mutant: the sources stored grouped by type, academic first
ResearchResponseGrouped(q, data) ==
    LET given == IF "sources" \in DOMAIN data THEN data.sources ELSE <<>>
    IN  [ query |-> Trim(q),
          answer |-> Get(data, "answer"),
          sources |-> SelectSeq(given, LAMBDA x : x.source_type = "arxiv")
                        \o SelectSeq(given, LAMBDA x : x.source_type = "web"),
          search_strategy |-> StrategyLabel ]

\* the ResearchResponse of the result branch of ws.onmessage, q the captured query
ResearchResponse(q, data) ==
    [ query |-> Trim(q),
      answer |-> Get(data, "answer"),
      sources |-> IF "sources" \in DOMAIN data THEN data.sources ELSE <<>>,
      search_strategy |-> StrategyLabel ]

\* handleSubmit: the empty-query return, else the reset of the snapshot and
\* either a new socket with its four handlers or the catch branch
HandleSubmit ==
    /\ IF IsEmptyQuery(query)
       THEN /\ error' = EmptyQueryMessage
            /\ UNCHANGED <<query, isLoading, result, status, statusDetails, sockets>>
       ELSE /\ result' = <<>>
            /\ status' = "Starting..."
            /\ statusDetails' = "Connecting to research agents..."
            /\ UNCHANGED query
            /\ IF backendUrlOk
               THEN /\ isLoading' = TRUE
                    /\ error' = Null
                    /\ sockets' = Append(sockets, NewSocket(query))
               ELSE /\ isLoading' = FALSE
                    /\ error' = ConstructorErrorMessage
                    /\ UNCHANGED sockets
    /\ Render
    /\ UNCHANGED <<backendUrlOk, mapperVars>>

\* handleClear
HandleClear ==
    /\ result' = <<>>
    /\ error' = Null
    /\ query' = ""
    /\ UNCHANGED <<isLoading, status, statusDetails, sockets, backendUrlOk, mapperVars>>
    /\ Render

\* setQuery, the onChange of the search box
SetQuery(q) ==
    /\ query' = q
    /\ UNCHANGED <<isLoading, error, result, status, statusDetails, sockets,
                   backendUrlOk, mapperVars>>
    /\ Render

\* PDFExportButton.handleDownload up to its await: the two setters, the fetch
HandleDownload ==
    /\ isGenerating' = TRUE
    /\ exportError' = Null
    /\ UNCHANGED <<homeVars, displayProgress>>

\* handleDownload after a response that is ok: the download, then finally
DownloadDone ==
    /\ isGenerating' = FALSE
    /\ UNCHANGED <<homeVars, displayProgress, exportError>>

\* messages of the errors handleDownload catches: the detail of a response
\* that is not ok, the message of a rejected fetch
ExportFailures == { "LaTeX compilation failed", "Failed to fetch" }

\* mutant: the caught export error reported through the page's error card
CatchExportErrorInPage(msg) ==
    /\ error' = msg
    /\ UNCHANGED <<query, isLoading, result, status, statusDetails, exportError>>

\* the catch block of handleDownload
CatchExportError(msg) ==
    /\ exportError' = (IF Truthy(msg) THEN msg ELSE "Failed to generate PDF")
    /\ UNCHANGED homeVars

\* handleDownload after a throw: catch, then finally
DownloadFailed(msg) ==
    /\ CatchExportError(msg)
    /\ isGenerating' = FALSE
    /\ UNCHANGED displayProgress

\* ws.onopen of socket c: the one ws.send
OnOpen(c) ==
    /\ sockets' = [sockets EXCEPT ![c].readyState = Open,
                                  ![c].sent = Append(@, RequestFrame(sockets[c].query))]
    /\ UNCHANGED <<homeVars, displayProgress, exportVars>>

\* ws.onmessage of socket c on event.data = w; JSON.parse throwing leaves the
\* handler before any setter ran
OnMessage(c, w) ==
    LET data == w.data
        type == Get(data, "type")
    IN  /\ IF ~w.valid
           THEN UNCHANGED <<isLoading, error, result, status, statusDetails, sockets>>
           ELSE IF type = "status"
           THEN /\ status' = Get(data, "stage")
                /\ statusDetails' = IF Truthy(Get(data, "details")) THEN data.details ELSE ""
                /\ UNCHANGED <<isLoading, error, result, sockets>>
           ELSE IF type = "result"
           THEN /\ result' = <<ResearchResponse(sockets[c].query, data)>>
                /\ isLoading' = FALSE
                /\ sockets' = [sockets EXCEPT ![c] = WsClose(@)]
                /\ UNCHANGED <<error, status, statusDetails>>
           ELSE IF type = "error"
           THEN /\ error' = Get(data, "content")
                /\ isLoading' = FALSE
                /\ sockets' = [sockets EXCEPT ![c] = WsClose(@)]
                /\ UNCHANGED <<result, status, statusDetails>>
           ELSE UNCHANGED <<isLoading, error, result, status, statusDetails, sockets>>
        /\ UNCHANGED query
        /\ Render

\* mutant: an error handler as empty as ws.onclose
OnErrorIgnored(c) ==
    /\ UNCHANGED homeVars
    /\ Render

\* ws.onerror of socket c, followed by the empty ws.onclose
OnError(c) ==
    /\ error' = ConnectionFailedMessage
    /\ isLoading' = FALSE
    /\ UNCHANGED <<query, result, status, statusDetails>>
    /\ Render

-----------------------------------------------------------------------------
(* User actions, as the rendered controls allow them *)

\* search_bar.tsx:34, the Research button is enabled
ButtonEnabled == ~(isLoading \/ Trim(query) = "")

\* search_bar.tsx:14, Enter without Shift submits
EnterSubmits == ~isLoading /\ Trim(query) # ""

\* search_bar.tsx:30, the textarea accepts input
TextareaEnabled == ~isLoading

\* page.tsx:142, ResultsDisplay and its New Query button are rendered
ResultsShown == ~isLoading /\ result # <<>>

UserEvent(ev) == last' = Event(ev, 0, NoWire, FALSE)

\* the submit about to run creates a socket, and the run may create one more
SocketBudget(max) == (Trim(query) # "" /\ backendUrlOk) => Len(sockets) < max

ClickResearch ==
    ButtonEnabled /\ SocketBudget(MaxSockets) /\ HandleSubmit /\ UserEvent("click")

PressEnter ==
    EnterSubmits /\ SocketBudget(MaxSockets) /\ HandleSubmit /\ UserEvent("enter")

TypeQuery(q) == TextareaEnabled /\ q # query /\ SetQuery(q) /\ UserEvent("type")

ClickNewQuery == ResultsShown /\ HandleClear /\ UserEvent("clear")

\* the Download button of PDFExportButton: rendered with ResultsDisplay,
\* disabled={isGenerating}
ExportEnabled == ResultsShown /\ ~isGenerating

ClickExport ==
    /\ ExportEnabled
    /\ HandleDownload
    /\ UserEvent("export")
    /\ UNCHANGED <<sockets, backendUrlOk, mapperVars>>

\* the fetch of a mounted PDFExportButton settles: the blob is downloaded ...
ExportSucceeds ==
    /\ isGenerating
    /\ DownloadDone
    /\ UserEvent("exported")
    /\ UNCHANGED <<sockets, backendUrlOk, mapperVars>>

\* ... or the response is not ok, or fetch rejects
ExportFails(msg) ==
    /\ isGenerating
    /\ DownloadFailed(msg)
    /\ UserEvent("exportfailed")
    /\ UNCHANGED <<sockets, backendUrlOk, mapperVars>>

ExportNext ==
    \/ ClickExport
    \/ ExportSucceeds
    \/ \E msg \in ExportFailures : ExportFails(msg)

-----------------------------------------------------------------------------
(* Events of the browser WebSocket, as the WebSocket standard orders them:  *)
(* message events are fired only while readyState is OPEN; the error event *)
(* is fired only when a connection that failed is closed, with readyState  *)
(* already CLOSED and the close event following at once; a connection can  *)
(* fail in any state before CLOSED, the closing handshake that ws.close()  *)
(* started included.                                                       *)

\* the connection is established: readyState OPEN, open event
WsOpens(c) ==
    /\ sockets[c].readyState = Connecting
    /\ OnOpen(c)
    /\ last' = Event("open", c, NoWire, TRUE)
    /\ UNCHANGED <<backendUrlOk, mapperVars>>

\* a frame of the server arrives: the message event is fired only while the
\* socket is OPEN, a frame reaching a CLOSING socket is discarded
WsReceives(c, w) ==
    /\ sockets[c].readyState \in {Open, Closing}
    /\ IF sockets[c].readyState = Open
       THEN OnMessage(c, w)
       ELSE UNCHANGED <<homeVars, displayProgress, exportVars, sockets>>
    /\ last' = Event("message", c, w, sockets[c].readyState = Open)
    /\ UNCHANGED <<backendUrlOk, mapperVars>>

\* the connection fails (refused, dropped, protocol violation, failed closing
\* handshake): readyState CLOSED, error event, then close event
WsFails(c) ==
    /\ sockets[c].readyState # Closed
    /\ sockets' = [sockets EXCEPT ![c].readyState = Closed]
    /\ OnError(c)
    /\ last' = Event("error", c, NoWire, TRUE)
    /\ UNCHANGED <<backendUrlOk, mapperVars>>

\* the connection closes cleanly (closing handshake completed, whichever side
\* began it): readyState CLOSED, close event only; ws.onclose is empty
WsClosesCleanly(c) ==
    /\ sockets[c].readyState \in {Open, Closing}
    /\ sockets' = [sockets EXCEPT ![c].readyState = Closed]
    /\ last' = Event("close", c, NoWire, TRUE)
    /\ UNCHANGED <<homeVars, displayProgress, exportVars, backendUrlOk, mapperVars>>

WsNext ==
    \/ \E c \in SocketIds : WsOpens(c)
    \/ \E c \in SocketIds : \E w \in Frames : WsReceives(c, w)
    \/ \E c \in SocketIds : WsFails(c)
    \/ \E c \in SocketIds : WsClosesCleanly(c)

-----------------------------------------------------------------------------
(* Specifications *)

Init ==
    /\ query = ""
    /\ isLoading = FALSE
    /\ error = Null
    /\ result = <<>>
    /\ status = "Initializing..."
    /\ statusDetails = ""
    /\ displayProgress = <<>>
    /\ isGenerating = FALSE
    /\ exportError = Null
    /\ sockets = <<>>
    /\ backendUrlOk \in BOOLEAN
    /\ last = Event("init", 0, NoWire, FALSE)
    /\ label = ""
    /\ computed = <<>>

UserNext ==
    \/ ClickResearch
    \/ PressEnter
    \/ \E q \in QueryTexts : TypeQuery(q)
    \/ ClickNewQuery

\* the application: Home driven through SearchBar and ResultsDisplay
Next == UserNext \/ WsNext \/ ExportNext

Spec == Init /\ [][Next]_vars

CallSubmit == SocketBudget(MaxHomeSockets) /\ HandleSubmit /\ UserEvent("submit")

CallClear == HandleClear /\ UserEvent("clear")

CallSetQuery(q) == q # query /\ SetQuery(q) /\ UserEvent("type")

HandlerNext ==
    \/ CallSubmit
    \/ CallClear
    \/ \E q \in QueryTexts : CallSetQuery(q)

\* Home alone: its handlers called whatever the child components render
NextHome == HandlerNext \/ WsNext

SpecHome == Init /\ [][NextHome]_vars

TypeOK ==
    /\ query \in QueryTexts
    /\ isLoading \in BOOLEAN
    /\ Len(result) <= 1
    /\ Len(displayProgress) <= 1
    /\ isGenerating \in BOOLEAN
    /\ exportError \in {Null} \cup ExportFailures
    /\ Len(sockets) <= Max(MaxSockets, MaxHomeSockets)
    /\ \A c \in SocketIds : sockets[c].readyState \in {Connecting, Open, Closing, Closed}

-----------------------------------------------------------------------------
(* The stage mapper on its own: stageToProgress applied to generated labels *)

MapperWords ==
    { STAGE_ORDER[i] : i \in 1..Len(STAGE_ORDER) }
        \cup { "Searching", "FINISHED", "Re-Critiquing", "idle", "plan" }

\* the catalog entries themselves, and labels built around one or two words
MapperLabels ==
    { STAGE_ORDER[i] : i \in 1..Len(STAGE_ORDER) } \cup
    { pre \o a \o " " \o b \o post :
        pre \in {"", " \t"}, a \in MapperWords, b \in MapperWords \cup {""},
        post \in {"", "\n"} }

\* one label is drawn and mapped
ComputeProgress(l) ==
    /\ computed = <<>>
    /\ label' = l
    /\ computed' = <<stageToProgress(l)>>
    /\ UNCHANGED <<homeVars, displayProgress, exportVars, sockets, backendUrlOk, last>>

NextMapper == \E l \in MapperLabels : ComputeProgress(l)

InitMapper == Init /\ backendUrlOk

SpecMapper == InitMapper /\ [][NextMapper]_vars

-----------------------------------------------------------------------------
(* Claims *)

SessionVars == <<isLoading, error, result, status, statusDetails, displayProgress>>

LiveSockets == { c \in SocketIds : Live(sockets[c]) }

\* C1: while LoadingState stays mounted (one session), every status frame,
\* whatever its label, leaves the displayed progress at least where it was.
C1_ProgressMonotone ==
    [][(displayProgress # <<>> /\ displayProgress' # <<>>)
          => displayProgress'[1] >= displayProgress[1]]_vars

\* a status frame with an earlier or unknown label was handled and the
\* display kept the higher value
C1_Witness ==
    /\ last.ev = "message" /\ last.delivered /\ last.wire \in StatusFrames
    /\ displayProgress # <<>>
    /\ displayProgress[1] > stageToProgress(status)

\* C2: result and error are never both set.
C2_ResultErrorExclusive == ~(result # <<>> /\ error # Null)

\* C3: at most one socket is connecting or open at any time.
C3_AtMostOneLive == Cardinality(LiveSockets) <= 1

\* C4: a frame arriving on a socket older than the newest one changes
\* nothing of the session.
C4_StaleFrameIgnored ==
    [][(last'.ev = "message" /\ last'.ch < Len(sockets')) => UNCHANGED SessionVars]_vars

\* C5: while a session is loading the user has a cancel: some user action
\* ends loading with no live socket and neither result nor error.
C5_CancelAvailable ==
    isLoading =>
        ENABLED (/\ UserNext
                 /\ ~isLoading'
                 /\ \A c \in 1..Len(sockets') : ~Live(sockets'[c])
                 /\ result' = <<>>
                 /\ error' = Null)

\* C6: once the handler of an open socket has been given a frame that is
\* not a status, result or error frame, the session has failed: loading is
\* off, an error is attached and that socket is no longer live.
C6_UnknownFrameFails ==
    (last.ev = "message" /\ last.delivered /\ last.wire \in UnknownFrames)
        => (~isLoading /\ Truthy(error) /\ ~Live(sockets[last.ch]))

\* C7: a session whose socket is closed is not loading any more.
C7_ClosedSocketEndsLoading ==
    (sockets # <<>> /\ sockets[Len(sockets)].readyState = Closed) => ~isLoading

\* C8: handleSubmit on a query that is empty after trimming only sets the
\* empty-query message: no socket is created, nothing is sent, and loading,
\* result, stage and displayed progress stay as they were.
C8_EmptySubmitNoSession ==
    [][(last'.ev = "submit" /\ Trim(query) = "")
          => /\ error' = EmptyQueryMessage
             /\ UNCHANGED <<sockets, isLoading, result, status, statusDetails,
                            displayProgress, query>>]_vars

\* an empty submit happened while a session was loading
C8_Witness ==
    /\ last.ev = "submit" /\ Trim(query) = ""
    /\ error = EmptyQueryMessage
    /\ isLoading /\ sockets # <<>> /\ displayProgress # <<>>

C9_Trimmed(q) ==
    Len(q) > 0 /\ CharAt(q, 1) \notin WhiteSpace /\ CharAt(q, Len(q)) \notin WhiteSpace

C9_IsTheRequest(ws) ==
    /\ ws.sent = <<[query |-> Trim(ws.query), use_search |-> TRUE, mode |-> "ultra"]>>
    /\ C9_Trimmed(ws.sent[1].query)

\* C9: a socket sends nothing before it opens, exactly the one request with
\* the trimmed query when it opens, before any frame is handled, and nothing
\* afterwards.
C9_OneRequestPerSession ==
    /\ [](\A c \in SocketIds :
            /\ sockets[c].readyState = Connecting => sockets[c].sent = <<>>
            /\ sockets[c].readyState = Open => C9_IsTheRequest(sockets[c])
            /\ sockets[c].sent # <<>> => C9_IsTheRequest(sockets[c])
            /\ (last.ev = "message" /\ last.ch = c) => C9_IsTheRequest(sockets[c]))
    /\ [][\A c \in SocketIds :
            sockets'[c].sent # sockets[c].sent
                => /\ sockets[c].readyState = Connecting
                   /\ sockets'[c].readyState = Open
                   /\ last'.ev = "open" /\ last'.ch = c]_vars

\* a socket that sent its request, handled a frame and got closed
C9_Witness ==
    \E c \in SocketIds :
        /\ sockets[c].readyState = Closed
        /\ C9_IsTheRequest(sockets[c])
        /\ sockets[c].sent[1].query = "rag"
        /\ result # <<>>

\* the percentages round(((i+1)/11)*100) of the eleven ordinals
C10_Percent == <<9, 18, 27, 36, 45, 55, 64, 73, 82, 91, 100>>

\* ordinals (1-based) of the catalog entries occurring in the trimmed,
\* lowercased label
C10_Matches(l) ==
    LET n == ToLowerCase(Trim(l))
    IN  { i \in 1..Len(STAGE_ORDER) :
            \E from \in 1..Len(n) : \E to \in from..Len(n) :
                SubSeq(n, from, to) = STAGE_ORDER[i] }

C10_Reference(l) ==
    LET m == C10_Matches(l)
    IN  IF m = {} THEN 8 ELSE C10_Percent[CHOOSE i \in m : \A j \in m : i <= j]

\* C10: stageToProgress is the reference function: the first catalog entry
\* in catalog order that occurs in the trimmed, lowercased label decides,
\* 8 when none occurs; "searching" gives 27, "finished" 100, all in 0..100.
C10_MapperIsReference ==
    computed # <<>> =>
        /\ computed[1] = C10_Reference(label)
        /\ computed[1] \in 0..100
        /\ (label = "finished " => computed[1] = 100)
        /\ (label = " \tSearching idle\n" => computed[1] = 27)
        /\ (label = "idle plan" => computed[1] = 8)

\* catalog order, not position in the label, broke a tie
C10_Witness ==
    /\ label = "searching planning"
    /\ computed = <<18>>

\* C11: the response stored by a result frame has the frame's answer, the
\* frame's sources in the frame's order (none when the field is absent), the
\* query the frame's socket sent in its request, and the fixed strategy label.
C11_ResponseFromFrame ==
    (last.ev = "message" /\ last.delivered /\ last.wire \in ResultFrames) =>
        /\ Len(result) = 1
        /\ result[1].answer = last.wire.data.answer
        /\ result[1].sources =
              (IF "sources" \in DOMAIN last.wire.data THEN last.wire.data.sources ELSE <<>>)
        /\ Len(sockets[last.ch].sent) = 1
        /\ result[1].query = sockets[last.ch].sent[1].query
        /\ C9_Trimmed(result[1].query)
        /\ result[1].search_strategy = "Real-time Agent Research"

\* a result frame with two sources, web before academic, was stored
C11_Witness ==
    /\ last.ev = "message" /\ last.delivered
    /\ result # <<>>
    /\ result[1].sources = <<SourceB, SourceA>>
    /\ result[1].query = "rag"

\* C12: handleClear runs only when no session is in flight: no socket is
\* connecting or open in the state it runs in.
C12_ClearOnlyWhenNoSessionInFlight ==
    [][last'.ev = "clear" => LiveSockets = {}]_vars

WsEvents == {"open", "message", "error", "close"}

\* the page as a fresh Idle session shows it: nothing loading, no result, no
\* error, no progress bar, an empty search box
FreshIdle ==
    /\ ~isLoading
    /\ result = <<>>
    /\ error = Null
    /\ displayProgress = <<>>
    /\ query = ""

\* C13: handleClear leaves a fresh Idle page, and no event of the cleared
\* session's socket that follows the clear changes what the page shows.
C13_ClearedSessionGone ==
    [][/\ last'.ev = "clear" => FreshIdle'
       /\ (last.ev = "clear" /\ last'.ev \in WsEvents) => FreshIdle']_vars

\* the first conjunct alone: the state handleClear leaves
C13_ClearLeavesFreshIdle == last.ev = "clear" => FreshIdle

ExportEvents == {"export", "exported", "exportfailed"}

\* C14: no step of the export exchange (its start, its success, its failure)
\* changes anything of the research session: query, loading, error, result,
\* stage, displayed progress and sockets stay as they were, and a failure's
\* message is held in the export button's own error.
C14_ExportIndependent ==
    [][last'.ev \in ExportEvents =>
          /\ UNCHANGED <<homeVars, displayProgress, sockets>>
          /\ last'.ev = "exportfailed" => exportError' \in ExportFailures]_vars

\* an export failed after an earlier failed export was retried, the report
\* still shown and the page's error card empty
C14_Witness ==
    /\ last.ev = "exportfailed"
    /\ exportError = "Failed to fetch"
    /\ ~isGenerating
    /\ result # <<>> /\ error = Null /\ ~isLoading

\* a result frame was delivered to the socket of the latest session
ResultFrameHandled ==
    /\ last.ev = "message" /\ last.delivered
    /\ last.wire \in ResultFrames
    /\ last.ch = Len(sockets)

\* what the handling of that frame has to leave, the error apart
C15_Completed ==
    ResultFrameHandled =>
        /\ result = <<ResearchResponse(sockets[last.ch].query, last.wire.data)>>
        /\ ~isLoading
        /\ sockets[last.ch].readyState = Closing

\* C15: the one step that handles a result frame on the open socket of the
\* latest session stores the assembled response, ends loading and closes the
\* socket, and the page has no error after it.
C15_ResultFrameCompletes ==
    /\ C15_Completed
    /\ ResultFrameHandled => error = Null

\* an error frame was delivered to the socket of the latest session
ErrorFrameHandled ==
    /\ last.ev = "message" /\ last.delivered
    /\ last.wire \in ErrorFrames
    /\ last.ch = Len(sockets)

\* the error card of page.tsx is rendered
ErrorShown == Truthy(error)

\* C16: the step that handles an error frame on the open socket of the latest
\* session ends loading, closes the socket and leaves an error shown; when
\* the frame has a content, the error is that content.
C16_ErrorFrameFails ==
    ErrorFrameHandled =>
        /\ ~isLoading
        /\ sockets[last.ch].readyState = Closing
        /\ ErrorShown
        /\ "content" \in DOMAIN last.wire.data => error = last.wire.data.content

\* the part that does not depend on the frame's content
C16_ErrorFrameEndsSession ==
    ErrorFrameHandled =>
        /\ ~isLoading
        /\ sockets[last.ch].readyState = Closing
        /\ error = Get(last.wire.data, "content")

SubmitEvents == {"click", "enter"}

\* the session that just failed to open shows a connection error and is not
\* loading
FailedToConnect(msg) == ~isLoading /\ error = msg /\ Truthy(msg)

\* C17: when new WebSocket throws, the submit leaves a failed session with the
\* exception's message and creates no socket; when a socket fails while still
\* connecting, the step leaves a failed session with the connection message,
\* that socket closed with nothing sent on it; and a socket is created only by
\* a submit of the user, never by a socket event.
C17_OpenFailureFails ==
    [][/\ (last'.ev \in SubmitEvents /\ ~IsEmptyQuery(query) /\ ~backendUrlOk)
             => (FailedToConnect(ConstructorErrorMessage)' /\ sockets' = sockets)
       /\ \A c \in SocketIds :
             (last'.ev = "error" /\ last'.ch = c /\ sockets[c].readyState = Connecting)
                 => /\ FailedToConnect(ConnectionFailedMessage)'
                    /\ sockets'[c] = [sockets[c] EXCEPT !.readyState = Closed]
                    /\ sockets[c].sent = <<>>
                    /\ Len(sockets') = Len(sockets)
       /\ Len(sockets') # Len(sockets) => last'.ev \in SubmitEvents]_vars

\* the only socket failed before it opened, and no other was created
C17_Witness ==
    /\ last.ev = "error"
    /\ Len(sockets) = 1
    /\ sockets[1].sent = <<>> /\ sockets[1].readyState = Closed
    /\ FailedToConnect(ConnectionFailedMessage)

\* the constructor threw on a submit
C17_WitnessThrow ==
    /\ last.ev \in SubmitEvents
    /\ ~backendUrlOk
    /\ sockets = <<>>
    /\ FailedToConnect(ConstructorErrorMessage)

\* the required field of a frame as the frame contract wants it
C18_ValidStage(v) == v \notin {Null, Undefined, ""}

C18_ValidAnswer(v) == v \notin {Null, Undefined}

\* C18: a delivered status frame whose stage is missing or empty leaves the
\* current stage as it was, and a delivered result frame whose answer is not
\* a string leaves the result as it was.
C18_InvalidFieldRejected ==
    [][(last'.ev = "message" /\ last'.delivered) =>
          LET data == last'.wire.data
          IN  /\ (last'.wire \in StatusFrames /\ ~C18_ValidStage(Get(data, "stage")))
                    => status' = status
              /\ (last'.wire \in ResultFrames /\ ~C18_ValidAnswer(Get(data, "answer")))
                    => result' = result]_vars

\* C19: a label equal to the catalog entry of 1-based ordinal i maps to
\* round((i / 11) * 100), so no entry is shadowed by an earlier one.
C19_EveryEntryReachable ==
    \A i \in 1..Len(STAGE_ORDER) :
        (computed # <<>> /\ label = STAGE_ORDER[i]) => computed[1] = C10_Percent[i]

\* the entries that are mapped to their own value
C19_Reachable ==
    { i \in 1..Len(STAGE_ORDER) : stageToProgress(STAGE_ORDER[i]) = C10_Percent[i] }

\* every entry but "re-critiquing" is mapped to its own value
C19_AllButOne ==
    computed # <<>> => C19_Reachable = (1..Len(STAGE_ORDER)) \ {8}

\* the guards of SearchBar: a click or an Enter submits, and a keystroke
\* edits the query, only in a state that is not loading, a submit only with
\* a query that is not empty once trimmed
C20_GuardsHold ==
    [][/\ last'.ev \in SubmitEvents => (~isLoading /\ Trim(query) # "")
       /\ last'.ev = "type" => ~isLoading]_vars

\* C20: through SearchBar a submit happens only while nothing is loading, the
\* trimmed query is not empty and no socket of an earlier session is live;
\* the query is edited only while nothing is loading; and the request a
\* socket sends carries the query the search box shows.
C20_SubmitOnlyWhenIdle ==
    [][/\ last'.ev \in SubmitEvents =>
             (~isLoading /\ Trim(query) # "" /\ LiveSockets = {})
       /\ last'.ev = "type" => ~isLoading
       /\ last'.ev = "open" =>
             sockets'[last'.ch].sent[1].query = Trim(query')]_vars

\* the second half alone
C20_SentIsShown ==
    [][last'.ev = "open" => sockets'[last'.ch].sent[1].query = Trim(query')]_vars

\* C21: a click or Enter submit that opens a socket leaves a fresh snapshot,
\* whatever the state it started from: no result, no error, loading, the
\* stage "Starting..." with its details, and a progress bar mounted anew at
\* the value of that stage, 8.
C21_FreshSnapshot ==
    [][(last'.ev \in SubmitEvents /\ Len(sockets') = Len(sockets) + 1) =>
          /\ result' = <<>>
          /\ error' = Null
          /\ isLoading'
          /\ status' = "Starting..."
          /\ statusDetails' = "Connecting to research agents..."
          /\ displayProgress' = <<UnknownStageProgress>>
          /\ sockets'[Len(sockets')] = NewSocket(query)]_vars

\* the state a resubmit starts from: an earlier session went up to "Finished"
\* and its socket delivered a result, the report is shown
C21_Before ==
    /\ ~isLoading
    /\ status = "Finished"
    /\ result # <<>>
    /\ Len(sockets) = 1
    /\ ButtonEnabled

\* a second session was started by a submit and is at 8
C21_Witness ==
    /\ last.ev \in SubmitEvents
    /\ Len(sockets) = 2
    /\ sockets[1].readyState \in {Closing, Closed}
    /\ displayProgress = <<UnknownStageProgress>>
    /\ isLoading /\ result = <<>> /\ error = Null

====
